---- MODULE Spec2Model ----
(***************************************************************************)
(* The line renderer of vs/editor/common/viewLayout/viewLineRenderer.ts:   *)
(* renderLine and renderLineActual as a state machine that is stepped one  *)
(* token and one character at a time, called twice in a row on one input;  *)
(* and the save participant of src/unnamed/part_000                        *)
(* (ExtHostDocumentSaveParticipant) as a state machine of its event-loop   *)
(* tasks: registrations, calls of $participateInSave, listener calls,      *)
(* promise settlements and timers.                                         *)
(***************************************************************************)
EXTENDS Integers, Sequences, FiniteSets, TLC

\* ------------------------------------------------------------------ bounds
MaxLen == 3
MaxParts == 2
MaxCalls == 2
MaxListeners == 2         \* listener functions
MaxPromises == 2          \* waitUntil calls of one listener call
MaxVersion == 1           \* document changes
\* thresholds.errors, an argument of the constructor (3 when left out)
ThresholdErrors == 1

\* ------------------------------------------------- characters (code units)
\* One-character strings; the three code units TLA+ cannot write stand under
\* their names.
NUL == "U+0000"
BOM == "U+FEFF"
LS == "U+2028"

_space == 32
_tab == 9
_lowerThan == 60
_greaterThan == 62
_ampersand == 38
_carriageReturn == 13
_lineSeparator == 8232
_bom == 65279

charCodeAt(c) ==
  CASE c = " " -> _space
    [] c = "\t" -> _tab
    [] c = "<" -> _lowerThan
    [] c = ">" -> _greaterThan
    [] c = "&" -> _ampersand
    [] c = "\r" -> _carriageReturn
    [] c = LS -> _lineSeparator
    [] c = BOM -> _bom
    [] c = NUL -> 0
    [] c = "a" -> 97
    [] c = "b" -> 98

\* ------------------------------------------------------------ token types
\* A type label is a string; CharsOf spells it, since the whitespace test
\* looks at its characters.
CharsOf(type) ==
  CASE type = "text" -> <<"t", "e", "x", "t">>
    [] type = "whitespace" -> <<"w", "h", "i", "t", "e", "s", "p", "a", "c", "e">>
    [] type = "leading whitespace" ->
         <<"l", "e", "a", "d", "i", "n", "g", " ",
           "w", "h", "i", "t", "e", "s", "p", "a", "c", "e">>
    [] type = "whitespaces" ->
         <<"w", "h", "i", "t", "e", "s", "p", "a", "c", "e", "s">>

WordChars ==
  {"a", "c", "d", "e", "g", "h", "i", "l", "n", "p", "s", "t", "w", "x"}

\* /\bwhitespace\b/ : the pattern's literal and its flags (no g flag).
WHITESPACE_TOKEN_TEST_global ==
  [literal |-> <<"w", "h", "i", "t", "e", "s", "p", "a", "c", "e">>, global |-> TRUE]

WHITESPACE_TOKEN_TEST ==
  [literal |-> <<"w", "h", "i", "t", "e", "s", "p", "a", "c", "e">>, global |-> FALSE]

\* The pattern without its word boundaries.
WordBoundary_none(s, i) == TRUE

\* \b at position i of s (between s[i] and s[i+1]).
WordBoundary(s, i) ==
  LET before == i >= 1 /\ s[i] \in WordChars
      after == i < Len(s) /\ s[i + 1] \in WordChars
  IN before # after

\* The literal matches s at offset i (0-based) between two word boundaries.
MatchesAt(re, s, i) ==
  /\ i + Len(re.literal) <= Len(s)
  /\ \A k \in 1..Len(re.literal) : s[i + k] = re.literal[k]
  /\ WordBoundary(s, i)
  /\ WordBoundary(s, i + Len(re.literal))

\* RegExp.prototype.test: the search starts at lastIndex for a global
\* pattern and at 0 otherwise; only a global pattern writes lastIndex.
RegExpTest(re, s, lastIndex) ==
  LET from == IF re.global THEN lastIndex ELSE 0
      hits == {i \in from..Len(s) : MatchesAt(re, s, i)}
      first == CHOOSE i \in hits : \A j \in hits : i <= j
  IN IF hits = {}
       THEN [found |-> FALSE, lastIndex |-> IF re.global THEN 0 ELSE lastIndex]
       ELSE [found |-> TRUE,
             lastIndex |-> IF re.global THEN first + Len(re.literal) ELSE lastIndex]

isWhitespace(type, lastIndex) ==
  RegExpTest(WHITESPACE_TOKEN_TEST, CharsOf(type), lastIndex)

\* ------------------------------------------------------------------ state
VARIABLES
  input,                  \* the RenderLineInput both calls are made with
  pc,                     \* "idle", "part", "char", "returned", "thrown"
  calls,                  \* calls of renderLine started so far
  charBreakIndex,
  partIndex,
  partRendersWhitespace,
  toCharIndex,
  charIndex,
  out,
  charOffsetInPartArr,
  charOffsetInPart,
  tabsCharDelta,
  result,                 \* the IRenderLineOutput of the call that returned
  previous,               \* how the call before ended, and what it returned
  regexLastIndex          \* WHITESPACE_TOKEN_TEST.lastIndex (module state)

vars ==
  <<input, pc, calls, charBreakIndex, partIndex, partRendersWhitespace,
    toCharIndex, charIndex, out, charOffsetInPartArr, charOffsetInPart,
    tabsCharDelta, result, previous, regexLastIndex>>

locals ==
  <<charBreakIndex, partIndex, partRendersWhitespace, toCharIndex, charIndex,
    out, charOffsetInPartArr, charOffsetInPart, tabsCharDelta>>

\* The save participant of src/unnamed/part_000 (ExtHostDocumentSaveParticipant).
VARIABLES
  callbacks,              \* _callbacks: the registered listeners, in order
  badListeners,           \* _badListeners: listener -> errors (0: no entry)
  docVersion,             \* document.version
  phase,                  \* "idle", "next", "joining", or "applying":
                          \* $tryApplyWorkspaceEdit has been called
  entries,                \* the listeners the running call took at its start
  index,                  \* factories of the sequence that have settled
  outcomes,               \* what each settled factory produced
  invoked,                \* the listeners the running call has invoked
  didTimeout,             \* TRUE once the call's timer has fired
  didTimeoutHandle,       \* TRUE while the call's timer is pending
  version,                \* the version the running delivery captured
  promises,               \* the delivery's promises array
  frozen,                 \* Object.isFrozen(promises)
  joined,                 \* how many promises Promise.all was given
  handle,                 \* TRUE while the delivery's timer is pending
  illegalStates           \* TRUE once waitUntil threw in this delivery

saveVars ==
  <<callbacks, badListeners, docVersion, phase, entries, index, outcomes,
    invoked, didTimeout, didTimeoutHandle, version, promises, frozen, joined,
    handle, illegalStates>>

allVars == <<vars, saveVars>>

NoOutput ==
  [charOffsetInPart |-> <<>>, lastRenderedPartIndex |-> 0 - 1, output |-> <<>>]

\* A hole of a JavaScript array (an index below length that was never set).
hole == 0 - 1

Min(a, b) == IF a < b THEN a ELSE b

SeqsUpTo(S, n) == UNION {[1..k -> S] : k \in 0..n}

\* ----------------------------------------------------------------- inputs
LineToken(startIndex, type) == [startIndex |-> startIndex, type |-> type]

RenderLineInput(lineContent, tabSize, stopRenderingLineAfter, renderWhitespace, parts) ==
  [lineContent |-> lineContent, tabSize |-> tabSize,
   stopRenderingLineAfter |-> stopRenderingLineAfter,
   renderWhitespace |-> renderWhitespace, parts |-> parts]

\* The token invariant of the data model: first token at 0, start indices
\* strictly increasing and inside the line.
ValidPartition(parts, len) ==
  /\ Len(parts) >= 1
  /\ parts[1].startIndex = 0
  /\ \A i \in 1..Len(parts) : parts[i].startIndex < len
  /\ \A i \in 1..(Len(parts) - 1) : parts[i].startIndex < parts[i + 1].startIndex

TabSizes == {1, 2, 3, 4}
Limits == {0 - 1} \cup (0..MaxLen)
ColumnChars == {"a", "\t"}
ContentChars == {"a", "b", "\t", " ", "<", ">", "&", "\r", NUL, BOM, LS}
PartTypes == {"text", "whitespace"}

Lines(chars) == SeqsUpTo(chars, MaxLen)
TokensOf(types) == {LineToken(i, t) : i \in 0..MaxLen, t \in types}
PartLists(types) == SeqsUpTo(TokensOf(types), MaxParts)

\* Lines of letters and tabs under every tab size, limit and flag, with every
\* valid token partition of the line.
PartitionInputs ==
  {i \in [lineContent : Lines(ColumnChars) \ {<<>>}, tabSize : TabSizes,
          stopRenderingLineAfter : Limits, renderWhitespace : BOOLEAN,
          parts : PartLists(PartTypes)] :
     ValidPartition(i.parts, Len(i.lineContent))}

\* Lines of every character the switch tells apart, as one token or as two.
ContentInputs ==
  [lineContent : Lines(ContentChars) \ {<<>>}, tabSize : {4},
   stopRenderingLineAfter : {0 - 1, 2}, renderWhitespace : BOOLEAN,
   parts : {<<LineToken(0, "text")>>,
            <<LineToken(0, "whitespace"), LineToken(1, "text")>>}]

\* Token lists that break the token invariant, the empty list among them.
DegenerateInputs ==
  {i \in [lineContent : Lines(ColumnChars) \ {<<>>}, tabSize : {1, 4},
          stopRenderingLineAfter : Limits, renderWhitespace : {FALSE},
          parts : PartLists({"text"})] :
     ~ValidPartition(i.parts, Len(i.lineContent))}

\* The zero-length line under every other parameter.
EmptyLineInputs ==
  [lineContent : {<<>>}, tabSize : TabSizes, stopRenderingLineAfter : Limits,
   renderWhitespace : BOOLEAN, parts : PartLists(PartTypes)]

\* Lines of spaces, tabs and letters in tokens of every type label.
TypeLabels == {"text", "whitespace", "leading whitespace", "whitespaces"}

WhitespaceInputs ==
  [lineContent : Lines({"a", " ", "\t"}) \ {<<>>}, tabSize : {4},
   stopRenderingLineAfter : {0 - 1}, renderWhitespace : BOOLEAN,
   parts : {<<LineToken(0, t)>> : t \in TypeLabels}
             \cup {<<LineToken(0, "text"), LineToken(1, t)>> : t \in TypeLabels}]

Inputs ==
  PartitionInputs \cup ContentInputs \cup DegenerateInputs \cup EmptyLineInputs
    \cup WhitespaceInputs

\* ------------------------------------------------------------ array writes
\* The write made one index too far.
ArraySet_shifted(arr, idx, v) ==
  [k \in 1..(idx + 2) |->
     IF k <= Len(arr) THEN arr[k] ELSE IF k = idx + 2 THEN v ELSE hole]

\* arr[idx] = v for a 0-based idx, as a JavaScript array does it: a write
\* past the end leaves holes below idx.
ArraySet(arr, idx, v) ==
  IF idx < Len(arr)
    THEN [arr EXCEPT ![idx + 1] = v]
    ELSE [k \in 1..(idx + 1) |->
            IF k <= Len(arr) THEN arr[k] ELSE IF k = idx + 1 THEN v ELSE hole]

\* The last entry left as it was recorded.
IncrementLast_none(arr) == arr

\* arr[arr.length - 1]++
IncrementLast(arr) == [arr EXCEPT ![Len(arr)] = arr[Len(arr)] + 1]

\* ----------------------------------------------------- the character switch
\* The distance to the tab stop taken from the source column alone.
InsertSpacesCount_noDelta(tabSize, cIndex, delta) == tabSize - (cIndex % tabSize)

\* tabSize - (charIndex + tabsCharDelta) % tabSize
InsertSpacesCount(tabSize, cIndex, delta) == tabSize - ((cIndex + delta) % tabSize)

RECURSIVE Repeat(_, _)
Repeat(f, n) == IF n <= 0 THEN <<>> ELSE <<f>> \o Repeat(f, n - 1)

\* The switch without its case for '>'.
CharFragments_noGreaterThan(c, tabSize, cIndex, delta, rendersWhitespace) ==
  LET charCode == charCodeAt(c)
      insertSpacesCount == InsertSpacesCount(tabSize, cIndex, delta)
  IN CASE charCode = _tab ->
            IF insertSpacesCount > 0
              THEN <<IF rendersWhitespace THEN "&rarr;" ELSE "&nbsp;">>
                     \o Repeat("&nbsp;", insertSpacesCount - 1)
              ELSE <<>>
       [] charCode = _space -> <<IF rendersWhitespace THEN "&middot;" ELSE "&nbsp;">>
       [] charCode = _lowerThan -> <<"&lt;">>
       [] charCode = _ampersand -> <<"&amp;">>
       [] charCode = 0 -> <<"&#00;">>
       [] charCode \in {_bom, _lineSeparator} -> <<"\\ufffd">>
       [] charCode = _carriageReturn -> <<"&#8203">>
       [] OTHER -> <<c>>

\* The fragments the switch pushes for the character c.
CharFragments(c, tabSize, cIndex, delta, rendersWhitespace) ==
  LET charCode == charCodeAt(c)
      insertSpacesCount == InsertSpacesCount(tabSize, cIndex, delta)
  IN CASE charCode = _tab ->
            IF insertSpacesCount > 0
              THEN <<IF rendersWhitespace THEN "&rarr;" ELSE "&nbsp;">>
                     \o Repeat("&nbsp;", insertSpacesCount - 1)
              ELSE <<>>
       [] charCode = _space -> <<IF rendersWhitespace THEN "&middot;" ELSE "&nbsp;">>
       [] charCode = _lowerThan -> <<"&lt;">>
       [] charCode = _greaterThan -> <<"&gt;">>
       [] charCode = _ampersand -> <<"&amp;">>
       [] charCode = 0 -> <<"&#00;">>
       [] charCode \in {_bom, _lineSeparator} -> <<"\\ufffd">>
       [] charCode = _carriageReturn -> <<"&#8203">>
       [] OTHER -> <<c>>

\* A tab counted with one column too many.
TabExtra_full(c, tabSize, cIndex, delta) ==
  IF charCodeAt(c) = _tab THEN InsertSpacesCount(tabSize, cIndex, delta) ELSE 0

\* A tab counted as one column.
TabExtra_none(c, tabSize, cIndex, delta) == 0

\* What a tab adds to tabsCharDelta and to charOffsetInPart.
TabExtra(c, tabSize, cIndex, delta) ==
  IF charCodeAt(c) = _tab THEN InsertSpacesCount(tabSize, cIndex, delta) - 1 ELSE 0

\* The save participant after its constructor: no listener, no bad listener,
\* no call running.
Constructed ==
  /\ callbacks = <<>>
  /\ badListeners = [l \in 1..MaxListeners |-> 0]
  /\ docVersion = 0
  /\ phase = "idle"
  /\ entries = <<>>
  /\ index = 0
  /\ outcomes = <<>>
  /\ invoked = <<>>
  /\ didTimeout = FALSE
  /\ didTimeoutHandle = FALSE
  /\ version = 0
  /\ promises = <<>>
  /\ frozen = FALSE
  /\ joined = 0
  /\ handle = FALSE
  /\ illegalStates = FALSE

\* ------------------------------------------------------------------- Init
Init ==
  /\ input \in Inputs
  /\ pc = "idle"
  /\ calls = 0
  /\ charBreakIndex = 0
  /\ partIndex = 0
  /\ partRendersWhitespace = FALSE
  /\ toCharIndex = 0
  /\ charIndex = 0
  /\ out = <<>>
  /\ charOffsetInPartArr = <<>>
  /\ charOffsetInPart = 0
  /\ tabsCharDelta = 0
  /\ result = NoOutput
  /\ previous = [pc |-> "idle", result |-> NoOutput]
  /\ regexLastIndex = 0
  /\ Constructed

\* ----------------------------------------------------------- renderLine
lineTextLength == Len(input.lineContent)

\* The limit taken as a 0-based index.
CharBreakIndex_noMinusOne(stopRenderingLineAfter, len) ==
  IF stopRenderingLineAfter = 0 - 1 THEN len ELSE stopRenderingLineAfter

\* stopRenderingLineAfter === -1 ? lineTextLength : stopRenderingLineAfter - 1
CharBreakIndex(stopRenderingLineAfter, len) ==
  IF stopRenderingLineAfter = 0 - 1 THEN len ELSE stopRenderingLineAfter - 1

\* A call may start when none is running and fewer than MaxCalls were made;
\* it remembers how the call before it ended.
CallStarts ==
  /\ pc \in {"idle", "returned", "thrown"}
  /\ calls < MaxCalls
  /\ calls' = calls + 1
  /\ previous' = [pc |-> pc, result |-> result]
  /\ charBreakIndex' = CharBreakIndex(input.stopRenderingLineAfter, lineTextLength)

FreshLocals ==
  /\ partIndex' = 0
  /\ partRendersWhitespace' = FALSE
  /\ toCharIndex' = 0
  /\ charIndex' = 0
  /\ charOffsetInPartArr' = <<>>
  /\ charOffsetInPart' = 0
  /\ tabsCharDelta' = 0

\* The placeholder returned with the index of the last token.
renderLineEmpty_lastPart ==
  /\ CallStarts
  /\ lineTextLength = 0
  /\ result' = [charOffsetInPart |-> <<>>, lastRenderedPartIndex |-> Len(input.parts) - 1,
                output |-> <<"<span><span>&nbsp;</span></span>">>]
  /\ pc' = "returned"
  /\ FreshLocals
  /\ out' = <<>>
  /\ UNCHANGED saveVars
  /\ UNCHANGED <<input, regexLastIndex>>

\* renderLine on a zero-length line: the placeholder.
renderLineEmpty ==
  /\ CallStarts
  /\ lineTextLength = 0
  /\ result' = [charOffsetInPart |-> <<>>, lastRenderedPartIndex |-> 0,
                output |-> <<"<span><span>&nbsp;</span></span>">>]
  /\ pc' = "returned"
  /\ FreshLocals
  /\ out' = <<>>
  /\ UNCHANGED saveVars
  /\ UNCHANGED <<input, regexLastIndex>>

\* The parts test made before the empty-line test.
renderLineThrow_beforeEmptyTest ==
  /\ CallStarts
  /\ Len(input.parts) = 0
  /\ result' = NoOutput
  /\ pc' = "thrown"
  /\ FreshLocals
  /\ out' = <<>>
  /\ UNCHANGED saveVars
  /\ UNCHANGED <<input, regexLastIndex>>

\* renderLine on a non-empty line without parts: the throw.
renderLineThrow ==
  /\ CallStarts
  /\ lineTextLength # 0
  /\ Len(input.parts) = 0
  /\ result' = NoOutput
  /\ pc' = "thrown"
  /\ FreshLocals
  /\ out' = <<>>
  /\ UNCHANGED saveVars
  /\ UNCHANGED <<input, regexLastIndex>>

\* renderLine handing over to renderLineActual, up to the container opening.
renderLineActual ==
  /\ CallStarts
  /\ lineTextLength # 0
  /\ Len(input.parts) # 0
  /\ result' = NoOutput
  /\ pc' = "part"
  /\ FreshLocals
  /\ out' = <<"<span>">>
  /\ UNCHANGED saveVars
  /\ UNCHANGED <<input, regexLastIndex>>

\* The token taken to end one character after the next token's start.
ToCharIndex_plusOne(parts, pIndex, len) ==
  IF pIndex + 1 < Len(parts) THEN Min(len, parts[pIndex + 2].startIndex + 1) ELSE len

\* Where the token at pIndex (0-based) ends: the next token's start, at most
\* the line length.
ToCharIndex(parts, pIndex, len) ==
  IF pIndex + 1 < Len(parts) THEN Min(len, parts[pIndex + 2].startIndex) ELSE len

\* The head of the token loop and the body down to the character loop.
PartBegin ==
  /\ pc = "part"
  /\ partIndex < Len(input.parts)
  /\ LET part == input.parts[partIndex + 1]
         test == isWhitespace(part.type, regexLastIndex)
     IN /\ out' = out \o <<"<span class=\"token ", part.type, "\">">>
        /\ IF input.renderWhitespace
             THEN /\ partRendersWhitespace' = test.found
                  /\ regexLastIndex' = test.lastIndex
             ELSE /\ partRendersWhitespace' = FALSE
                  /\ regexLastIndex' = regexLastIndex
  /\ toCharIndex' = ToCharIndex(input.parts, partIndex, lineTextLength)
  /\ charOffsetInPart' = 0
  /\ pc' = "char"
  /\ UNCHANGED saveVars
  /\ UNCHANGED <<input, calls, charBreakIndex, partIndex, charIndex,
                 charOffsetInPartArr, tabsCharDelta, result, previous>>

\* The test made on the index the loop would have after its increment.
ReachedBreak_afterIncrement(cIndex, breakIndex) == cIndex + 1 >= breakIndex

\* The test that ends the scan, made before the loop increments charIndex.
ReachedBreak(cIndex, breakIndex) == cIndex >= breakIndex

\* One turn of the character loop: record the offset, push the fragments,
\* advance, and either stop at the break index or go on.
CharStep ==
  /\ pc = "char"
  /\ charIndex < toCharIndex
  /\ LET c == input.lineContent[charIndex + 1]
         extra == TabExtra(c, input.tabSize, charIndex, tabsCharDelta)
         recorded == ArraySet(charOffsetInPartArr, charIndex, charOffsetInPart)
         pushed == out \o CharFragments(c, input.tabSize, charIndex, tabsCharDelta,
                                        partRendersWhitespace)
     IN /\ tabsCharDelta' = tabsCharDelta + extra
        /\ charOffsetInPart' = charOffsetInPart + extra + 1
        /\ IF ReachedBreak(charIndex, charBreakIndex)
             THEN /\ out' = pushed \o <<"&hellip;</span></span>">>
                  /\ charOffsetInPartArr' = IncrementLast(recorded)
                  /\ result' = [charOffsetInPart |-> charOffsetInPartArr',
                                lastRenderedPartIndex |-> partIndex,
                                output |-> out']
                  /\ pc' = "returned"
                  /\ charIndex' = charIndex
             ELSE /\ out' = pushed
                  /\ charOffsetInPartArr' = recorded
                  /\ result' = result
                  /\ pc' = "char"
                  /\ charIndex' = charIndex + 1
  /\ UNCHANGED saveVars
  /\ UNCHANGED <<input, calls, charBreakIndex, partIndex, partRendersWhitespace,
                 toCharIndex, previous, regexLastIndex>>

\* The token's span left open.
PartEnd_noClose ==
  /\ pc = "char"
  /\ ~(charIndex < toCharIndex)
  /\ out' = out
  /\ partIndex' = partIndex + 1
  /\ pc' = "part"
  /\ UNCHANGED saveVars
  /\ UNCHANGED <<input, calls, charBreakIndex, partRendersWhitespace, toCharIndex,
                 charIndex, charOffsetInPartArr, charOffsetInPart, tabsCharDelta,
                 result, previous, regexLastIndex>>

\* The character loop is over for this token: close its span.
PartEnd ==
  /\ pc = "char"
  /\ ~(charIndex < toCharIndex)
  /\ out' = out \o <<"</span>">>
  /\ partIndex' = partIndex + 1
  /\ pc' = "part"
  /\ UNCHANGED saveVars
  /\ UNCHANGED <<input, calls, charBreakIndex, partRendersWhitespace, toCharIndex,
                 charIndex, charOffsetInPartArr, charOffsetInPart, tabsCharDelta,
                 result, previous, regexLastIndex>>

\* The token loop is over: close the container, push the trailing offset.
Finish ==
  /\ pc = "part"
  /\ ~(partIndex < Len(input.parts))
  /\ out' = out \o <<"</span>">>
  /\ charOffsetInPartArr' = Append(charOffsetInPartArr, charOffsetInPart)
  /\ result' = [charOffsetInPart |-> charOffsetInPartArr',
                lastRenderedPartIndex |-> Len(input.parts) - 1,
                output |-> out']
  /\ pc' = "returned"
  /\ UNCHANGED saveVars
  /\ UNCHANGED <<input, calls, charBreakIndex, partIndex, partRendersWhitespace,
                 toCharIndex, charIndex, charOffsetInPart, tabsCharDelta,
                 previous, regexLastIndex>>

\* renderLineActual as a function of its arguments: the same loops run to
\* their end in one evaluation. st is the loop state.
RECURSIVE Scan(_, _, _)
Scan(inp, breakIndex, st) ==
  LET len == Len(inp.lineContent)
  IN IF st.mode = "part"
       THEN IF st.partIndex < Len(inp.parts)
              THEN LET part == inp.parts[st.partIndex + 1]
                   IN Scan(inp, breakIndex,
                           [st EXCEPT
                              !.mode = "char",
                              !.out = @ \o <<"<span class=\"token ", part.type, "\">">>,
                              !.partRendersWhitespace =
                                 inp.renderWhitespace /\ isWhitespace(part.type, 0).found,
                              !.toCharIndex = ToCharIndex(inp.parts, st.partIndex, len),
                              !.charOffsetInPart = 0])
              ELSE [charOffsetInPart |-> Append(st.charOffsetInPartArr, st.charOffsetInPart),
                    lastRenderedPartIndex |-> Len(inp.parts) - 1,
                    output |-> st.out \o <<"</span>">>]
       ELSE IF st.charIndex < st.toCharIndex
              THEN LET c == inp.lineContent[st.charIndex + 1]
                       extra == TabExtra(c, inp.tabSize, st.charIndex, st.tabsCharDelta)
                       recorded == ArraySet(st.charOffsetInPartArr, st.charIndex,
                                            st.charOffsetInPart)
                       pushed == st.out \o CharFragments(c, inp.tabSize, st.charIndex,
                                                         st.tabsCharDelta,
                                                         st.partRendersWhitespace)
                   IN IF ReachedBreak(st.charIndex, breakIndex)
                        THEN [charOffsetInPart |-> IncrementLast(recorded),
                              lastRenderedPartIndex |-> st.partIndex,
                              output |-> pushed \o <<"&hellip;</span></span>">>]
                        ELSE Scan(inp, breakIndex,
                                  [st EXCEPT
                                     !.out = pushed,
                                     !.charOffsetInPartArr = recorded,
                                     !.tabsCharDelta = @ + extra,
                                     !.charOffsetInPart = @ + extra + 1,
                                     !.charIndex = @ + 1])
              ELSE Scan(inp, breakIndex,
                        [st EXCEPT !.mode = "part", !.out = @ \o <<"</span>">>,
                                   !.partIndex = @ + 1])

\* What renderLine returns for a non-empty line with at least one token.
Rendered(inp) ==
  Scan(inp, CharBreakIndex(inp.stopRenderingLineAfter, Len(inp.lineContent)),
       [mode |-> "part", partIndex |-> 0, charIndex |-> 0, out |-> <<"<span>">>,
        charOffsetInPartArr |-> <<>>, charOffsetInPart |-> 0, tabsCharDelta |-> 0,
        partRendersWhitespace |-> FALSE, toCharIndex |-> 0])

Next ==
  \/ renderLineEmpty
  \/ renderLineThrow
  \/ renderLineActual
  \/ PartBegin
  \/ CharStep
  \/ PartEnd
  \/ Finish

Spec == Init /\ [][Next]_allVars

\* ======================================================= save participant
Listeners == 1..MaxListeners
Registered == {callbacks[k] : k \in DOMAIN callbacks}
Remove(seq, l) == SelectSeq(seq, LAMBDA x : x # l)

\* The renderer at rest while the save participant runs.
SaveInit ==
  /\ input = RenderLineInput(<<>>, 4, 0 - 1, FALSE, <<>>)
  /\ pc = "idle"
  /\ calls = 0
  /\ charBreakIndex = 0
  /\ partIndex = 0
  /\ partRendersWhitespace = FALSE
  /\ toCharIndex = 0
  /\ charIndex = 0
  /\ out = <<>>
  /\ charOffsetInPartArr = <<>>
  /\ charOffsetInPart = 0
  /\ tabsCharDelta = 0
  /\ result = NoOutput
  /\ previous = [pc |-> "idle", result |-> NoOutput]
  /\ regexLastIndex = 0
  /\ Constructed

callVars ==
  <<entries, index, outcomes, invoked, didTimeout, didTimeoutHandle>>
deliveryVars == <<version, promises, frozen, joined, handle, illegalStates>>

\* The event loop is between tasks: timers, promise callbacks and other code
\* run only then. Phase "next" is inside the promise chain of the sequence,
\* which runs to the next listener, or to the end of the call, in one task.
BetweenTasks == phase \in {"idle", "joining", "applying"}

\* getOnWillSaveTextDocumentEvent(...)(listener): push on _callbacks.
\* Listener functions are interchangeable, so they are numbered in the order
\* in which they register.
Subscribe(l) ==
  /\ BetweenTasks
  /\ \A k \in Registered : k < l
  /\ callbacks' = Append(callbacks, l)
  /\ UNCHANGED <<badListeners, docVersion, phase>>
  /\ UNCHANGED <<callVars, deliveryVars, vars>>

\* The disposable returned by the subscription: remove from _callbacks.
Unsubscribe(l) ==
  /\ BetweenTasks
  /\ l \in Registered
  /\ callbacks' = Remove(callbacks, l)
  /\ UNCHANGED <<badListeners, docVersion, phase>>
  /\ UNCHANGED <<callVars, deliveryVars, vars>>

\* dispose(): _callbacks.clear()
dispose ==
  /\ BetweenTasks
  /\ callbacks # <<>>
  /\ callbacks' = <<>>
  /\ UNCHANGED <<badListeners, docVersion, phase>>
  /\ UNCHANGED <<callVars, deliveryVars, vars>>

\* The document changes (an edit arrives from the main thread).
DocumentChanges ==
  /\ BetweenTasks
  /\ docVersion < MaxVersion
  /\ docVersion' = docVersion + 1
  /\ UNCHANGED <<callbacks, badListeners, phase>>
  /\ UNCHANGED <<callVars, deliveryVars, vars>>

\* $participateInSave: take the entries, start the timer and the sequence.
participateInSave ==
  /\ phase = "idle"
  /\ entries' = callbacks
  /\ didTimeout' = FALSE
  /\ didTimeoutHandle' = TRUE
  /\ index' = 0
  /\ outcomes' = <<>>
  /\ invoked' = <<>>
  /\ phase' = "next"
  /\ promises' = <<>>
  /\ frozen' = FALSE
  /\ joined' = 0
  /\ UNCHANGED <<callbacks, badListeners, docVersion>>
  /\ UNCHANGED <<version, handle, illegalStates, vars>>

\* The call's timer fires: didTimeout = true.
DidTimeout ==
  /\ BetweenTasks
  /\ didTimeoutHandle
  /\ didTimeout' = TRUE
  /\ didTimeoutHandle' = FALSE
  /\ UNCHANGED <<callbacks, badListeners, docVersion, phase>>
  /\ UNCHANGED <<entries, index, outcomes, invoked, deliveryVars, vars>>

IsBadListener_atThreshold(errors) == errors >= ThresholdErrors

\* errors > this._thresholds.errors (no entry compares false)
IsBadListener(errors) == errors > ThresholdErrors

\* The rejection handler of _deliverEventAsyncAndBlameBadListeners: count the
\* error unless it is 'concurrent_edits'.
Blame(bad, l, err) ==
  IF err # "concurrent_edits"
    THEN [bad EXCEPT ![l] = IF bad[l] = 0 THEN 1 ELSE bad[l] + 1]
    ELSE bad

OnRejected_rethrows(err) == [outcome |-> "false", rethrown |-> TRUE]

\* What the rejection handler hands to the sequence: false, nothing rethrown.
OnRejected(err) == [outcome |-> "false", rethrown |-> FALSE]

\* sequence(): a factory's promise settled; a fulfilled one lets the next
\* factory run, a rejected one rejects the whole sequence (always() then
\* clears the call's timer).
FactorySettles(outcome, rethrown) ==
  /\ outcomes' = Append(outcomes, outcome)
  /\ index' = index + 1
  /\ phase' = IF rethrown THEN "idle" ELSE "next"
  /\ didTimeoutHandle' = IF rethrown THEN FALSE ELSE didTimeoutHandle

\* The delivery promise rejected with err: blame, then settle the factory.
DeliveryRejected(l, err) ==
  /\ badListeners' = Blame(badListeners, l, err)
  /\ FactorySettles(OnRejected(err).outcome, OnRejected(err).rethrown)

AtFactory == phase = "next" /\ index < Len(entries)
current == entries[index + 1]

NoMoreListeners_never(flag) == FALSE

\* if (didTimeout): timeout - no more listeners
NoMoreListeners(flag) == flag

\* if (didTimeout) return undefined
FactoryTimedOut ==
  /\ AtFactory
  /\ NoMoreListeners(didTimeout)
  /\ FactorySettles("undefined", FALSE)
  /\ UNCHANGED <<callbacks, badListeners, docVersion>>
  /\ UNCHANGED <<entries, invoked, didTimeout, deliveryVars, vars>>

\* A bad listener is ignored: Promise.resolve(false).
DeliverIgnored ==
  /\ AtFactory
  /\ ~NoMoreListeners(didTimeout)
  /\ IsBadListener(badListeners[current])
  /\ FactorySettles("false", FALSE)
  /\ UNCHANGED <<callbacks, badListeners, docVersion>>
  /\ UNCHANGED <<entries, invoked, didTimeout, deliveryVars, vars>>

WaitUntil_unchecked(ps, isFrozen, p) ==
  [threw |-> FALSE, promises |-> Append(ps, p)]

\* event.waitUntil(p): refused once the promises array is frozen.
WaitUntil(ps, isFrozen, p) ==
  IF isFrozen
    THEN [threw |-> TRUE, promises |-> ps]
    ELSE [threw |-> FALSE, promises |-> Append(ps, p)]

RECURSIVE WaitUntilTimes(_, _)
WaitUntilTimes(ps, n) ==
  IF n = 0 THEN ps ELSE WaitUntilTimes(WaitUntil(ps, FALSE, "pending").promises, n - 1)

\* The listener is fired and throws err.
ListenerThrows(err) ==
  /\ AtFactory
  /\ ~NoMoreListeners(didTimeout)
  /\ ~IsBadListener(badListeners[current])
  /\ invoked' = Append(invoked, current)
  /\ version' = docVersion
  /\ promises' = <<>>
  /\ frozen' = FALSE
  /\ joined' = 0
  /\ handle' = FALSE
  /\ illegalStates' = FALSE
  /\ DeliveryRejected(current, err)
  /\ UNCHANGED <<callbacks, docVersion>>
  /\ UNCHANGED <<entries, didTimeout, vars>>

\* The listener is fired, calls waitUntil n times and returns; the promises
\* are frozen and joined under the delivery's timer. Without promises the
\* join resolves at once, with no edits.
ListenerReturns(n) ==
  /\ AtFactory
  /\ ~NoMoreListeners(didTimeout)
  /\ ~IsBadListener(badListeners[current])
  /\ invoked' = Append(invoked, current)
  /\ version' = docVersion
  /\ promises' = WaitUntilTimes(<<>>, n)
  /\ frozen' = TRUE
  /\ joined' = Len(promises')
  /\ illegalStates' = FALSE
  /\ IF joined' = 0
       THEN /\ handle' = FALSE
            /\ FactorySettles("true", FALSE)
       ELSE /\ handle' = TRUE
            /\ phase' = "joining"
            /\ UNCHANGED <<index, outcomes, didTimeoutHandle>>
  /\ UNCHANGED <<callbacks, badListeners, docVersion>>
  /\ UNCHANGED <<entries, didTimeout, vars>>

\* waitUntil called after the listener returned.
LateWaitUntil ==
  /\ BetweenTasks
  /\ frozen
  /\ ~illegalStates
  /\ LET r == WaitUntil(promises, frozen, "pending")
     IN /\ promises' = r.promises
        /\ illegalStates' = r.threw
  /\ UNCHANGED <<callbacks, badListeners, docVersion, phase>>
  /\ UNCHANGED <<callVars, version, frozen, joined, handle, vars>>

Joining(k) == phase = "joining" /\ k <= joined
HasEdits(ps) == \E k \in 1..joined : ps[k] = "edits"
AllResolved(ps) == \A k \in 1..joined : ps[k] \in {"edits", "none"}

VersionUnchanged_always(captured, now) == TRUE

\* version === document.version
VersionUnchanged(captured, now) == captured = now

\* Promise.all treats the promises of a delivery alike, so they are numbered
\* in the order in which they settle.
FirstPending(ps, k) ==
  /\ ps[k] = "pending"
  /\ \A j \in 1..(k - 1) : ps[j] # "pending"

\* A promise given to waitUntil resolves, with text edits or with anything
\* else. When it was the last one the join waited for, the timer is cleared
\* and the edits, if any, are applied, unless the document has changed.
PromiseResolves(k, value) ==
  /\ BetweenTasks
  /\ k \in DOMAIN promises
  /\ FirstPending(promises, k)
  /\ promises' = [promises EXCEPT ![k] = value]
  /\ IF Joining(k) /\ AllResolved(promises')
       THEN /\ handle' = FALSE
            /\ IF ~HasEdits(promises')
                 THEN /\ FactorySettles("true", FALSE)
                      /\ UNCHANGED badListeners
                 ELSE IF VersionUnchanged(version, docVersion)
                        THEN /\ phase' = "applying"
                             /\ UNCHANGED <<badListeners, index, outcomes,
                                            didTimeoutHandle>>
                        ELSE DeliveryRejected(current, "concurrent_edits")
       ELSE UNCHANGED <<handle, badListeners, phase, index, outcomes,
                        didTimeoutHandle>>
  /\ UNCHANGED <<callbacks, docVersion>>
  /\ UNCHANGED <<entries, invoked, didTimeout, version, frozen, joined,
                 illegalStates, vars>>

\* A promise given to waitUntil rejects with err: the join rejects at once.
PromiseRejects(k, err) ==
  /\ BetweenTasks
  /\ k \in DOMAIN promises
  /\ FirstPending(promises, k)
  /\ promises' = [promises EXCEPT ![k] = "rejected"]
  /\ IF Joining(k)
       THEN /\ handle' = FALSE
            /\ DeliveryRejected(current, err)
       ELSE UNCHANGED <<handle, badListeners, phase, index, outcomes, didTimeoutHandle>>
  /\ UNCHANGED <<callbacks, docVersion>>
  /\ UNCHANGED <<entries, invoked, didTimeout, version, frozen, joined,
                 illegalStates, vars>>

DeliveryTimeout_resolves ==
  /\ phase = "joining"
  /\ handle
  /\ didTimeout
  /\ handle' = FALSE
  /\ FactorySettles("true", FALSE)
  /\ UNCHANGED <<callbacks, badListeners, docVersion>>
  /\ UNCHANGED <<entries, invoked, didTimeout, version, promises, frozen, joined,
                 illegalStates, vars>>

\* The delivery's timer fires: reject with 'timeout'. It was started after
\* the call's timer with the same delay, so it fires after it.
DeliveryTimeout ==
  /\ phase = "joining"
  /\ handle
  /\ didTimeout
  /\ handle' = FALSE
  /\ DeliveryRejected(current, "timeout")
  /\ UNCHANGED <<callbacks, docVersion>>
  /\ UNCHANGED <<entries, invoked, didTimeout, version, promises, frozen, joined,
                 illegalStates, vars>>

\* $tryApplyWorkspaceEdit answers: the delivery resolves.
ApplyEditReturns ==
  /\ phase = "applying"
  /\ FactorySettles("true", FALSE)
  /\ UNCHANGED <<callbacks, badListeners, docVersion>>
  /\ UNCHANGED <<entries, invoked, didTimeout, deliveryVars, vars>>

\* The sequence has run every factory: the call resolves, always() clears
\* its timer, and nothing refers to its entries and results any more. The
\* promises of its last delivery may still settle.
SaveSettles ==
  /\ phase = "next"
  /\ index = Len(entries)
  /\ phase' = "idle"
  /\ didTimeoutHandle' = FALSE
  /\ entries' = <<>>
  /\ index' = 0
  /\ outcomes' = <<>>
  /\ invoked' = <<>>
  /\ didTimeout' = FALSE
  /\ version' = 0
  /\ handle' = FALSE
  /\ illegalStates' = FALSE
  /\ UNCHANGED <<callbacks, badListeners, docVersion, promises, frozen, joined,
                 vars>>

SaveNext ==
  \/ \E l \in Listeners : Subscribe(l)
  \/ \E l \in Listeners : Unsubscribe(l)
  \/ dispose
  \/ DocumentChanges
  \/ participateInSave
  \/ DidTimeout
  \/ FactoryTimedOut
  \/ DeliverIgnored
  \/ \E err \in {"error", "concurrent_edits"} : ListenerThrows(err)
  \/ \E n \in 0..MaxPromises : ListenerReturns(n)
  \/ LateWaitUntil
  \/ \E k \in 1..(MaxPromises + 1), value \in {"edits", "none"} : PromiseResolves(k, value)
  \/ \E k \in 1..(MaxPromises + 1), err \in {"error", "concurrent_edits"} : PromiseRejects(k, err)
  \/ DeliveryTimeout
  \/ ApplyEditReturns
  \/ SaveSettles

SaveSpec == SaveInit /\ [][SaveNext]_allVars

\* A timer that is due fires: the event loop gets to its callback.
SaveFairSpec ==
  SaveSpec /\ WF_allVars(DidTimeout) /\ WF_allVars(DeliveryTimeout)

\* ================================================================ claims
Ended == pc \in {"returned", "thrown"}
Running == pc \in {"part", "char"}
Ellipsis == "&hellip;</span></span>"
TokenOpening == "<span class=\"token "
Count(seq, f) == Cardinality({k \in DOMAIN seq : seq[k] = f})
HasEllipsis(o) == Count(o, Ellipsis) > 0
tokenCount == Len(input.parts)
NonEmptyNoParts == lineTextLength # 0 /\ tokenCount = 0

\* The 0-based index of the token whose range contains the offset.
TokenContaining(parts, offset) ==
  CHOOSE i \in 0..(Len(parts) - 1) :
    /\ parts[i + 1].startIndex <= offset
    /\ (i + 1 = Len(parts) \/ offset < parts[i + 2].startIndex)

\* C1: renderLine throws if and only if the line is non-empty and the token
\* list is empty; on every other input a call that is running can always take
\* its next step and a call that ended has returned an output.
C1_ThrowsIffNonEmptyWithoutParts ==
  /\ pc = "thrown" => NonEmptyNoParts
  /\ pc = "returned" => (~NonEmptyNoParts /\ result # NoOutput)
  /\ Running => (~NonEmptyNoParts /\ ENABLED Next)
  /\ Running => (charIndex <= lineTextLength /\ partIndex <= tokenCount)

C1_Witness ==
  /\ pc = "thrown"
  /\ NonEmptyNoParts

\* C2: with a limit L >= 1, a valid token partition and a line of at least L
\* characters, the output holds the ellipsis exactly once and
\* lastRenderedPartIndex is the index of the token that contains offset L - 1.
C2_Case ==
  /\ pc = "returned"
  /\ input.stopRenderingLineAfter >= 1
  /\ lineTextLength >= input.stopRenderingLineAfter
  /\ ValidPartition(input.parts, lineTextLength)

C2_TruncationBoundary ==
  C2_Case =>
    /\ Count(result.output, Ellipsis) = 1
    /\ result.lastRenderedPartIndex =
         TokenContaining(input.parts, input.stopRenderingLineAfter - 1)

C2_Witness ==
  /\ C2_Case
  /\ tokenCount = 2
  /\ input.stopRenderingLineAfter = 2
  /\ input.parts[2].startIndex = 1
  /\ lineTextLength = 3

\* C3 as stated: for a non-empty line with a valid token partition, an
\* ellipsis is in the output if and only if lastRenderedPartIndex is below
\* tokenCount - 1.
C3_Case ==
  /\ pc = "returned"
  /\ lineTextLength # 0
  /\ ValidPartition(input.parts, lineTextLength)

C3_AsStated ==
  C3_Case => (HasEllipsis(result.output) <=> result.lastRenderedPartIndex < tokenCount - 1)

\* C3 amended: for a non-empty line with a valid token partition,
\* lastRenderedPartIndex is below tokenCount - 1 if and only if an ellipsis is
\* in the output and the cutoff character lies before the last token's start;
\* a cutoff inside the last token leaves lastRenderedPartIndex at
\* tokenCount - 1 although the ellipsis is there.
C3_TruncationBeforeLastToken ==
  C3_Case =>
    (result.lastRenderedPartIndex < tokenCount - 1
       <=> (/\ HasEllipsis(result.output)
            /\ Len(result.charOffsetInPart) - 1 < input.parts[tokenCount].startIndex))

C3_Witness ==
  /\ C3_Case
  /\ HasEllipsis(result.output)
  /\ tokenCount = 2
  /\ result.lastRenderedPartIndex = 0

C5_Case ==
  /\ pc = "returned"
  /\ input = RenderLineInput(<<"a", "\t", "b">>, 4, 0 - 1, FALSE, <<LineToken(0, "text")>>)

C5_AsStated == C5_Case => result.charOffsetInPart = <<0, 1, 1, 4>>

\* C5 amended: that call returns an offset table with four entries equal to
\* [0,1,4,5].
C5_TabExample == C5_Case => result.charOffsetInPart = <<0, 1, 4, 5>>

C5_Witness ==
  /\ C5_Case
  /\ Len(result.charOffsetInPart) = 4
  /\ result.output = <<"<span>", TokenOpening, "text", "\">", "a", "&nbsp;", "&nbsp;",
                       "&nbsp;", "b", "</span>", "</span>">>

\* C6: every tab expands exactly to the next tab stop. A tab pushes between 1
\* and tabSize space fragments and the rendered column after it
\* (charIndex + 1 + tabsCharDelta) is a multiple of tabSize, in whatever token
\* it stands; and as long as the scan has seen only tabs, k of them, it has
\* pushed k * tabSize space fragments.
SpaceFragments == {"&nbsp;", "&rarr;"}
SpaceCount(o) == Cardinality({k \in DOMAIN o : o[k] \in SpaceFragments})
AtTab == pc = "char" /\ charIndex < toCharIndex /\ input.lineContent[charIndex + 1] = "\t"
OnlyTabsBefore(n) == \A k \in 1..n : input.lineContent[k] = "\t"

C6_TabStep ==
  AtTab =>
    /\ SpaceCount(out') - SpaceCount(out) \in 1..input.tabSize
    /\ (charIndex + 1 + tabsCharDelta') % input.tabSize = 0

C6_ConsecutiveTabs ==
  (Running /\ OnlyTabsBefore(charIndex)) => SpaceCount(out) = charIndex * input.tabSize

C6_TabStops == [][C6_TabStep]_vars /\ []C6_ConsecutiveTabs

C6_Witness ==
  /\ pc = "char"
  /\ partIndex = 1
  /\ charIndex = 2
  /\ OnlyTabsBefore(2)
  /\ input.tabSize = 3
  /\ tabsCharDelta = 4
  /\ SpaceCount(out) = 6

\* C7: for a non-empty line and a valid token partition, truncated or not,
\* the fragments hold one container opening and one container closing,
\* lastRenderedPartIndex + 1 token openings, and every token span is closed
\* before the next one opens and before the container closes.
Opens(f) == IF f \in {"<span>", TokenOpening} THEN 1 ELSE 0
Closes(f) == IF f = "</span>" THEN 1 ELSE IF f = Ellipsis THEN 2 ELSE 0

\* How many spans are open after the first k fragments.
RECURSIVE Depth(_, _)
Depth(o, k) == IF k = 0 THEN 0 ELSE Depth(o, k - 1) + Opens(o[k]) - Closes(o[k])

C7_Case ==
  /\ pc = "returned"
  /\ lineTextLength # 0
  /\ ValidPartition(input.parts, lineTextLength)

C7_BalancedMarkup ==
  C7_Case =>
    LET o == result.output
    IN /\ o[1] = "<span>"
       /\ Count(o, "<span>") = 1
       /\ Count(o, TokenOpening) = result.lastRenderedPartIndex + 1
       /\ \A k \in 1..(Len(o) - 1) : Depth(o, k) >= 1
       /\ Depth(o, Len(o)) = 0
       /\ \A k \in DOMAIN o : o[k] = TokenOpening => Depth(o, k - 1) = 1
       /\ \A k \in DOMAIN o : Depth(o, k) <= 2

C7_Witness ==
  /\ C7_Case
  /\ tokenCount = 2
  /\ HasEllipsis(result.output)
  /\ result.lastRenderedPartIndex = 1
  /\ Count(result.output, "</span>") = 1

\* C8: no fragment of the output is a raw '<', '>' or '&'; each such source
\* character that was scanned stands in the output as its entity, in every
\* token and whether or not the render was truncated.
ScannedCount ==
  IF HasEllipsis(result.output)
    THEN Len(result.charOffsetInPart)
    ELSE Len(result.charOffsetInPart) - 1
ScannedOf(c) == Cardinality({k \in 1..ScannedCount : input.lineContent[k] = c})

C8_Escaping ==
  /\ \A k \in DOMAIN out : out[k] \notin {"<", ">", "&"}
  /\ (pc = "returned" /\ lineTextLength # 0) =>
       /\ \A k \in DOMAIN result.output : result.output[k] \notin {"<", ">", "&"}
       /\ Count(result.output, "&lt;") = ScannedOf("<")
       /\ Count(result.output, "&gt;") = ScannedOf(">")
       /\ Count(result.output, "&amp;") = ScannedOf("&")

C8_Witness ==
  /\ pc = "returned"
  /\ input.lineContent = <<"<", ">", "&">>
  /\ tokenCount = 2
  /\ HasEllipsis(result.output)
  /\ Count(result.output, "&lt;") = 1
  /\ Count(result.output, "&gt;") = 1
  /\ Count(result.output, "&amp;") = 0

\* C9: on a zero-length line renderLine returns the one-fragment placeholder,
\* lastRenderedPartIndex 0 and an empty offset table, whatever the tab size,
\* limit, flag and token list, the empty token list included; it never throws
\* and never enters the scan.
Placeholder ==
  [charOffsetInPart |-> <<>>, lastRenderedPartIndex |-> 0,
   output |-> <<"<span><span>&nbsp;</span></span>">>]

C9_EmptyLine ==
  lineTextLength = 0 =>
    /\ pc \in {"idle", "returned"}
    /\ pc = "returned" => result = Placeholder

C9_Witness ==
  /\ lineTextLength = 0
  /\ tokenCount = 0
  /\ pc = "returned"
  /\ result = Placeholder

\* C10: a call of renderLine that follows a call with the same input ends the
\* same way and returns the same output, offset table and
\* lastRenderedPartIndex; the whitespace test keeps no position between calls.
C10_Idempotent ==
  /\ (Ended /\ calls >= 2) => (previous.pc = pc /\ previous.result = result)
  /\ regexLastIndex = 0

C10_Witness ==
  /\ pc = "returned"
  /\ calls = 2
  /\ input.renderWhitespace
  /\ previous.result = result
  /\ Count(result.output, "&rarr;") = 1
  /\ Count(result.output, "&nbsp;") >= 1

\* C11 as stated: the cutoff is tested on the incremented charIndex, so a turn
\* of the character loop stops the scan exactly when charIndex + 1 has reached
\* or passed charBreakIndex.
AtCharStep == pc = "char" /\ charIndex < toCharIndex
Max(a, b) == IF a > b THEN a ELSE b

C11_AsStatedStep == AtCharStep => (pc' = "returned" <=> charIndex + 1 >= charBreakIndex)

C11_AsStated == [][C11_AsStatedStep]_vars

\* C11 amended: the cutoff is tested after the character has been emitted and
\* charOffsetInPart incremented, but before charIndex is incremented: a turn
\* of the character loop stops the scan with an ellipsis exactly when the
\* index of the character just emitted has reached or passed charBreakIndex
\* (= limit - 1), so a limit L >= 1 renders L characters, not L - 1.
C11_CutoffStep ==
  AtCharStep =>
    /\ pc' = "returned" <=> charIndex >= charBreakIndex
    /\ charOffsetInPart' > charOffsetInPart
    /\ pc' = "returned" =>
         /\ charIndex' = charIndex
         /\ out'[Len(out')] = Ellipsis
         /\ Len(out') >= Len(out) + 2
         /\ Len(charOffsetInPartArr') = Max(input.stopRenderingLineAfter, 1)
    /\ pc' # "returned" => (pc' = "char" /\ charIndex' = charIndex + 1)

C11_CutoffBeforeIncrement == [][C11_CutoffStep]_vars

C11_Witness ==
  /\ pc = "returned"
  /\ input.stopRenderingLineAfter = 2
  /\ lineTextLength = 3
  /\ charIndex = 1
  /\ Len(result.charOffsetInPart) = 2
  /\ HasEllipsis(result.output)

\* C12: when the render is not truncated and the tokens are a valid
\* partition, entry i of the offset table is the number of rendered columns
\* of the characters of i's token that precede i (a tab counting as the
\* columns up to its tab stop, any other character as 1), and the trailing
\* entry is the rendered column count of the last token.
\* The rendered column at which the character with 0-based index k starts.
RECURSIVE Column(_)
Column(k) ==
  IF k = 0 THEN 0
  ELSE LET before == Column(k - 1)
       IN IF input.lineContent[k] = "\t"
            THEN before + (input.tabSize - (before % input.tabSize))
            ELSE before + 1

TokenStart(i) == input.parts[TokenContaining(input.parts, i) + 1].startIndex

C12_Case ==
  /\ pc = "returned"
  /\ lineTextLength # 0
  /\ ValidPartition(input.parts, lineTextLength)
  /\ ~HasEllipsis(result.output)

C12_OffsetsAreColumnsInToken ==
  C12_Case =>
    /\ Len(result.charOffsetInPart) = lineTextLength + 1
    /\ \A i \in 0..(lineTextLength - 1) :
         result.charOffsetInPart[i + 1] = Column(i) - Column(TokenStart(i))
    /\ result.charOffsetInPart[lineTextLength + 1] =
         Column(lineTextLength) - Column(input.parts[tokenCount].startIndex)

C12_Witness ==
  /\ C12_Case
  /\ input.lineContent = <<"a", "\t", "\t">>
  /\ input.tabSize = 3
  /\ tokenCount = 2
  /\ input.parts[2].startIndex = 1
  /\ result.charOffsetInPart = <<0, 0, 2, 5>>

\* C13: truncation changes only the tail of the result. For the same line,
\* tokens, tab size and flag, the offset table of a truncated render is the
\* prefix of the untruncated render's table of the same length, except that
\* its last entry is larger by exactly 1 (1 instead of 0 when the cutoff
\* character is the first of its token), and its fragments before the
\* ellipsis are a prefix of the untruncated render's fragments. The stepped
\* render and the render evaluated as a function agree on every input.
Untruncated == Rendered([input EXCEPT !.stopRenderingLineAfter = 0 - 1])

C13_Case ==
  /\ pc = "returned"
  /\ lineTextLength # 0
  /\ HasEllipsis(result.output)

C13_TruncationIsAPrefix ==
  /\ (pc = "returned" /\ lineTextLength # 0) => result = Rendered(input)
  /\ C13_Case =>
       LET n == Len(result.charOffsetInPart)
           m == Len(result.output) - 1
           whole == Untruncated
       IN /\ ~HasEllipsis(whole.output)
          /\ n <= Len(whole.charOffsetInPart)
          /\ \A k \in 1..(n - 1) :
               result.charOffsetInPart[k] = whole.charOffsetInPart[k]
          /\ result.charOffsetInPart[n] = whole.charOffsetInPart[n] + 1
          /\ result.output[m + 1] = Ellipsis
          /\ m <= Len(whole.output)
          /\ \A k \in 1..m : result.output[k] = whole.output[k]

C13_Witness ==
  /\ C13_Case
  /\ tokenCount = 2
  /\ input.parts[2].startIndex = 1
  /\ input.stopRenderingLineAfter = 2
  /\ lineTextLength = 3
  /\ result.charOffsetInPart = <<0, 1>>
  /\ Untruncated.charOffsetInPart[2] = 0

\* C14: visible whitespace glyphs are pushed only inside whitespace-significant
\* tokens. A space is pushed as the middle dot and a tab's first column as the
\* arrow exactly when the whitespace flag is set and the token's type holds
\* 'whitespace' as a whole word; otherwise they are non-breaking spaces; the
\* columns of a tab after the first are always non-breaking spaces, and no
\* other character pushes a glyph.
WholeWordWhitespaceTypes == {"whitespace", "leading whitespace"}
Glyphs == {"&middot;", "&rarr;"}
GlyphCount(o) == Cardinality({k \in DOMAIN o : o[k] \in Glyphs})

Significant ==
  /\ input.renderWhitespace
  /\ input.parts[partIndex + 1].type \in WholeWordWhitespaceTypes

C14_GlyphStep ==
  AtCharStep =>
    LET c == input.lineContent[charIndex + 1]
        first == out'[Len(out) + 1]
        spaces == SpaceCount(out') - SpaceCount(out)
    IN /\ c = " " => first = (IF Significant THEN "&middot;" ELSE "&nbsp;")
       /\ c = "\t" =>
            /\ first = (IF Significant THEN "&rarr;" ELSE "&nbsp;")
            /\ \A k \in (Len(out) + 2)..(Len(out) + spaces) : out'[k] = "&nbsp;"
       /\ GlyphCount(out') - GlyphCount(out) =
            (IF c \in {" ", "\t"} /\ Significant THEN 1 ELSE 0)

C14_WhitespaceGlyphs == [][C14_GlyphStep]_vars

C14_Witness ==
  /\ pc = "returned"
  /\ input.renderWhitespace
  /\ input.lineContent = <<" ", "\t", " ">>
  /\ tokenCount = 2
  /\ input.parts[2].type = "leading whitespace"
  /\ result.output =
       <<"<span>", TokenOpening, "text", "\">", "&nbsp;", "</span>",
         TokenOpening, "leading whitespace", "\">", "&rarr;", "&nbsp;", "&nbsp;",
         "&middot;", "</span>", "</span>">>

\* ---------------------------------------------------------------------------
\* The save participant.

\* The step fires a listener.
Invokes == Len(invoked') = Len(invoked) + 1
Delivering == phase \in {"joining", "applying"}

\* C15: in $participateInSave the listeners registered at the start of the
\* call are invoked one at a time in registration order: the call works on
\* the listeners registered when it started, whatever registers or
\* unregisters meanwhile; a listener is fired only when no delivery is in
\* progress, and it is the entry after those whose delivery has settled; a
\* listener whose turn has come is fired whatever the earlier results were;
\* and the call ends only when every entry has a result.
C15_Step ==
  /\ (phase = "idle" /\ phase' # "idle") => entries' = callbacks
  /\ (phase # "idle" /\ phase' # "idle") => entries' = entries
  /\ Invokes =>
       /\ ~Delivering
       /\ Len(outcomes) = index
       /\ index < Len(entries)
       /\ invoked' = Append(invoked, entries[index + 1])
  /\ (AtFactory /\ ~didTimeout /\ ~IsBadListener(badListeners[current])) =>
       invoked' = Append(invoked, current)
  /\ (phase # "idle" /\ phase' = "idle") => Len(outcomes) = Len(entries)

Results(r) == outcomes' = Append(outcomes, r)
\* The step counts an error of listener l, if err is one that counts.
Counts(l, err) ==
  badListeners' =
    [badListeners EXCEPT ![l] = IF err = "concurrent_edits" THEN @ ELSE @ + 1]

\* C16: when the delivery function is called for a listener, the listener
\* is skipped without being invoked, with result false, exactly when its
\* error count is strictly greater than thresholds.errors; the count grows
\* by one on every rejected delivery whose error is not 'concurrent_edits'
\* (thrown listener, rejected waitUntil promise, timeout), changes in no
\* other way and is never reset by a successful delivery. So a listener is
\* invoked again after thresholds.errors failures, and no count passes
\* thresholds.errors + 1.
C16_Step ==
  /\ (AtFactory /\ ~didTimeout) =>
       IF badListeners[current] > ThresholdErrors
         THEN ~Invokes /\ Results("false") /\ badListeners' = badListeners
         ELSE Invokes
  /\ \A l \in Listeners :
       badListeners'[l] \in {badListeners[l], badListeners[l] + 1}
  /\ \A err \in {"error", "concurrent_edits"} :
       ListenerThrows(err) => Results("false") /\ Counts(current, err)
  /\ \A k \in 1..MaxPromises, err \in {"error", "concurrent_edits"} :
       (Joining(k) /\ PromiseRejects(k, err)) =>
         Results("false") /\ Counts(current, err)
  /\ DeliveryTimeout => Results("false") /\ Counts(current, "timeout")
  /\ (Results("true") \/ Results("undefined")) => badListeners' = badListeners
  /\ badListeners' # badListeners => Results("false")

C16_BadListeners ==
  [][C16_Step]_allVars

\* The first listener has failed thresholds.errors + 1 times and has been
\* skipped; the second has failed thresholds.errors times and is invoked.
C16_Witness ==
  /\ phase = "joining"
  /\ entries = <<1, 2>>
  /\ outcomes = <<"false">>
  /\ invoked = <<2>>
  /\ badListeners[1] = ThresholdErrors + 1
  /\ badListeners[2] = ThresholdErrors
  /\ ThresholdErrors > 0

\* The step is the one in which the last promise of the join resolves.
JoinResolves ==
  /\ phase = "joining"
  /\ promises' # promises
  /\ AllResolved(promises')

\* C17: the edits collected from a listener are sent to
\* $tryApplyWorkspaceEdit only if the document version at that moment equals
\* the version captured when the event was fired; if the version has
\* changed, no edit is applied, the listener's result is false and no error
\* count changes.
C17_Step ==
  /\ (phase # "applying" /\ phase' = "applying") =>
       /\ JoinResolves
       /\ HasEdits(promises')
       /\ version = docVersion
  /\ (JoinResolves /\ HasEdits(promises') /\ version # docVersion) =>
       /\ phase' = "next"
       /\ Results("false")
       /\ badListeners' = badListeners
  /\ (JoinResolves /\ HasEdits(promises') /\ version = docVersion) =>
       /\ phase' = "applying"
       /\ outcomes' = outcomes

C17_ConcurrentEdits == [][C17_Step]_allVars

\* A listener's edits have just been dropped because the document changed
\* during the delivery; the listener has no error on record.
C17_Witness ==
  /\ phase = "next"
  /\ index > 0
  /\ outcomes[index] = "false"
  /\ invoked # <<>>
  /\ invoked[Len(invoked)] = entries[index]
  /\ AllResolved(promises)
  /\ HasEdits(promises)
  /\ version # docVersion
  /\ badListeners[entries[index]] = 0

\* C18: once the timer of a $participateInSave call has fired, which it does
\* thresholds.timeout after the start of the call, no listener that has not
\* yet been started is invoked in that call, and the result of its factory
\* is undefined; the timer firing changes nothing of a delivery that is in
\* progress; and no timer of the call is pending once the call has settled.
C18_Step ==
  /\ didTimeout => ~Invokes
  /\ (AtFactory /\ didTimeout) => Results("undefined")
  /\ (~didTimeout /\ didTimeout') =>
       /\ phase' = phase
       /\ <<index, outcomes, invoked, entries>>' = <<index, outcomes, invoked, entries>>
       /\ deliveryVars' = deliveryVars
       /\ badListeners' = badListeners
  /\ phase' = "idle" => ~didTimeoutHandle'

TimesOut ==
  /\ phase = "joining"
  /\ phase' # "joining"
  /\ promises' = promises

\* C19: every delivery settles as far as the promises given to waitUntil go:
\* the join always ends, and when the delivery's timer fires, which it does
\* thresholds.timeout after the listener returned, before the promises have
\* all settled, the delivery is rejected with 'timeout': the listener's
\* result is false, its error count grows by one, and no edit of it is
\* applied; a promise of a delivery that has settled changes nothing when it
\* settles later.
C19_Step ==
  /\ TimesOut =>
       /\ phase' = "next"
       /\ Results("false")
       /\ Counts(current, "timeout")
  /\ (phase # "joining" /\ ~Invokes /\ Len(promises') = Len(promises)) =>
       /\ (phase' = "applying" => phase = "applying")
       /\ (promises' # promises =>
             /\ phase' = phase
             /\ <<index, outcomes, badListeners>>' = <<index, outcomes, badListeners>>)

C19_DeliverySettles ==
  /\ [][C19_Step]_allVars
  /\ (phase = "joining" ~> phase # "joining")

\* A delivery has just timed out with one promise resolved to edits and the
\* other still pending: the result is false and the error is counted.
C19_Witness ==
  /\ phase = "next"
  /\ index > 0
  /\ outcomes[index] = "false"
  /\ ~handle
  /\ HasEdits(promises)
  /\ \E k \in DOMAIN promises : promises[k] = "pending"
  /\ badListeners[entries[index]] = 1

\* C20: waitUntil is accepted only while the listener is executing: the
\* promises passed during the listener call are the ones that are joined,
\* and all of them have resolved before edits are applied; a waitUntil call
\* made after the listener has returned throws an illegal-state error and
\* adds no promise, so that the promises of a delivery are at all times the
\* ones that were joined.
C20_Step ==
  /\ (Invokes /\ frozen') =>
       /\ joined' = Len(promises')
       /\ ~illegalStates'
  /\ LateWaitUntil =>
       /\ illegalStates'
       /\ promises' = promises
       /\ joined' = joined
  /\ frozen' => joined' = Len(promises')
  /\ (phase # "applying" /\ phase' = "applying") =>
       /\ joined' = Len(promises')
       /\ AllResolved(promises')

C20_WaitUntilOnlyInListener == [][C20_Step]_allVars

\* The listener passed two promises, a later waitUntil call threw, and the
\* edits are applied after exactly the two promises have resolved.
C20_Witness ==
  /\ phase = "applying"
  /\ illegalStates
  /\ joined = 2
  /\ Len(promises) = 2

====
